---- MODULE Spec2Model ----
(***************************************************************************)
(* Model of mvcc/backend/batch_tx.go: the batching write transaction that  *)
(* sits on top of the bolt store.  One batchTx, its embedded mutex, the    *)
(* backend fields it reads and publishes (batchLimit, commits, size,       *)
(* sizeInUse, mu) and the part of the store it drives through bolt.Tx.     *)
(***************************************************************************)
EXTENDS Integers, Sequences, FiniteSets, TLC

\* ------------------------------------------------------------------ bounds
NumThreads == 2
MaxBatchLimit == 2
MaxPending == 3
MaxCommits == 2

\* -------------------------------------------------------- store constants
PageSize == 4096
BasePages == 4

Threads == 1..NumThreads
NoThread == 0

\* keys are byte strings; <<>> is the nil / empty slice
NilKey == <<>>
NilValue == 0
Values == {10, 20}

\* inputs of Spec: one bucket name, which exists once it has been created
BucketNames == {"key"}
Keys == {<<1>>, <<2>>}
\* UnsafeRange in Spec: a scan of the whole bucket and a point lookup
RangeArgs == {<<NilKey, <<3>>, 0>>, <<(<<1>>), NilKey, 0>>}
\* UnsafeForEach: the visitor fails on the key it names; NilKey: it never fails
Visitors == {NilKey}

\* inputs of SpecRead: "meta" is a bucket that was never created
ScanBuckets == {"key", "meta"}
ScanKeys == {<<1>>, <<1, 2>>, <<2>>}
ScanStartKeys == ScanKeys \cup {NilKey}
ScanEndKeys == ScanKeys \cup {NilKey, <<3>>}
ScanLimits == {-1, 0, 1, 2}
ScanVisitors == ScanKeys \cup {NilKey}

EmptyMap == [k \in {} |-> NilValue]
NoTx == [id |-> 0, open |-> FALSE]
NoEntry == [op |-> "none", from |-> "none", pending |-> 0, commits |-> 0, flushes |-> 0,
            txid |-> 0, size |-> 0, sizeInUse |-> 0]
NoRet == [op |-> "none"]

VARIABLES
    batchLimit,   \* backend.batchLimit
    mutex,        \* batchTx.Mutex: the thread that holds it, or NoThread
    pc,           \* per thread: idle | bracket | rlock | begin
    entry,        \* what the running commit handler saw when it was entered
    tx,           \* batchTx.tx: NoTx (nil) or the handle [id, open]
    work,         \* content seen through the handle: bucket name -> (key -> value)
    disk,         \* durable content of the store
    dbPgid,       \* the store's high-water mark, in pages
    flushes,      \* number of bolt.Tx.Commit calls that succeeded
    pending,      \* batchTx.pending
    commits,      \* backend.commits
    size,         \* backend.size
    sizeInUse,    \* backend.sizeInUse
    muReaders,    \* backend.mu: threads that hold it shared
    muWriter,     \* backend.mu: held exclusively by a backend-wide operation
    fatal,        \* plog.Fatalf was reached: the process is gone
    ret,          \* the last read's result, or the last handler that released the mutex
    serial,       \* history: the closed brackets applied one after another
    local,        \* history, per thread: serial with its open bracket applied
    stopped       \* history: CommitAndStop was called

vars == <<batchLimit, mutex, pc, entry, tx, work, disk, dbPgid, flushes, pending,
          commits, size, sizeInUse, muReaders, muWriter, fatal, ret, serial,
          local, stopped>>

storeVars == <<tx, work, disk, dbPgid, flushes>>
metricVars == <<commits, size, sizeInUse>>
muVars == <<muReaders, muWriter>>
histVars == <<serial, local, stopped>>

\* ------------------------------------------------------------- the store
Max(a, b) == IF a >= b THEN a ELSE b

\* bytes.Compare: lexicographic order on byte strings
RECURSIVE BytesCompare(_, _)
BytesCompare(a, b) ==
    IF a = <<>> THEN (IF b = <<>> THEN 0 ELSE -1)
    ELSE IF b = <<>> THEN 1
    ELSE IF Head(a) < Head(b) THEN -1
    ELSE IF Head(a) > Head(b) THEN 1
    ELSE BytesCompare(Tail(a), Tail(b))

\* tx.Bucket(name) != nil
HasBucket(w, name) == name \in DOMAIN w

\* tx.CreateBucket(name) on an open handle: a bucket that is there is reported
\* as ErrBucketExists; ok is the store's answer to the creation of a new one
TxCreateBucket(w, name, ok) ==
    IF HasBucket(w, name) THEN [err |-> "ErrBucketExists", w |-> w]
    ELSE IF ~ok THEN [err |-> "error", w |-> w]
    ELSE [err |-> "nil", w |-> [b \in DOMAIN w \cup {name} |->
                                  IF b = name THEN EmptyMap ELSE w[b]]]

\* bucket.Put(key, value)
BucketPut(content, key, value) ==
    [k \in DOMAIN content \cup {key} |-> IF k = key THEN value ELSE content[k]]

\* bucket.Delete(key): absence is not an error
BucketDelete(content, key) ==
    [k \in DOMAIN content \ {key} |-> content[k]]

\* bucket.Get(key): nil when the key is absent
BucketGet(content, key) ==
    IF key \in DOMAIN content THEN content[key] ELSE NilValue

\* the least key of a set of keys, NilKey when there is none
LeastKey(S) ==
    IF S = {} THEN NilKey
    ELSE CHOOSE k \in S : \A o \in S : BytesCompare(k, o) <= 0

\* cursor.Seek(key): the first key at or after key
CursorSeek(content, key) ==
    LeastKey({k \in DOMAIN content : BytesCompare(k, key) >= 0})

\* cursor.Next(): the first key after the cursor's key
CursorNext(content, ck) ==
    LeastKey({k \in DOMAIN content : BytesCompare(k, ck) > 0})

\* pages the content occupies
UsedPages(w) ==
    LET RECURSIVE Sum(_)
        Sum(S) == IF S = {} THEN 0
                  ELSE LET b == CHOOSE x \in S : TRUE
                       IN 1 + Cardinality(DOMAIN w[b]) + Sum(S \ {b})
    IN BasePages + Sum(DOMAIN w)

\* tx.Size() of a transaction begun on the store
TxSize(pgid) == pgid * PageSize

\* db.Stats().FreePageN
FreePageN(pgid, d) == pgid - UsedPages(d)

TypeOK ==
    /\ batchLimit \in 0..MaxBatchLimit
    /\ mutex \in Threads \cup {NoThread}
    /\ pc \in [Threads -> {"idle", "bracket", "rlock", "begin"}]
    /\ pending \in 0..MaxPending
    /\ commits \in 0..MaxCommits
    /\ fatal \in BOOLEAN
    /\ muWriter \in BOOLEAN
    /\ muReaders \subseteq Threads
    /\ stopped \in BOOLEAN

Init ==
    /\ batchLimit \in 0..MaxBatchLimit
    /\ mutex = NoThread
    /\ pc = [t \in Threads |-> "idle"]
    /\ entry = NoEntry
    /\ tx = NoTx
    /\ work = EmptyMap
    /\ disk = EmptyMap
    /\ dbPgid = BasePages
    /\ flushes = 0
    /\ pending = 0
    /\ commits = 0
    /\ size = 0
    /\ sizeInUse = 0
    /\ muReaders = {}
    /\ muWriter = FALSE
    /\ fatal = FALSE
    /\ ret = NoRet
    /\ serial = EmptyMap
    /\ local = [t \in Threads |-> EmptyMap]
    /\ stopped = FALSE

\* ------------------------------------------------------ the code's helpers
\* the fields a handler reads and writes, and where it stands (at)
Cur ==
    [tx |-> tx, work |-> work, disk |-> disk, dbPgid |-> dbPgid,
     flushes |-> flushes, pending |-> pending, commits |-> commits,
     size |-> size, sizeInUse |-> sizeInUse, at |-> "run"]

Install(r) ==
    /\ tx' = r.tx
    /\ work' = r.work
    /\ disk' = r.disk
    /\ dbPgid' = r.dbPgid
    /\ flushes' = r.flushes
    /\ pending' = r.pending
    /\ commits' = r.commits
    /\ size' = r.size
    /\ sizeInUse' = r.sizeInUse

\* mutant of the threshold check: a threshold below 1 switches the check off
ThresholdReachedPositive(p, limit) == limit >= 1 /\ p >= limit

\* mutants of the threshold check: strictly above, and one mutation early
ThresholdReachedAbove(p, limit) == p > limit
ThresholdReachedEarly(p, limit) == p + 1 >= limit

\* Unlock: t.pending >= t.backend.batchLimit
ThresholdReached(p, limit) == p >= limit

\* mutants of the early return: stop ignored, and never taken
CommitReturnsEarlyIgnoringStop(p, stop) == p = 0
CommitNeverReturnsEarly(p, stop) == FALSE

\* commit: t.pending == 0 && !stop, the early return
CommitReturnsEarly(p, stop) == p = 0 /\ ~stop

\* t.tx.Commit(): a closed handle reports ErrTxClosed; ok is the store's answer
TxCommit(s, ok) ==
    IF ok /\ s.tx.open
    THEN [s EXCEPT !.tx.open = FALSE,
                   !.disk = s.work,
                   !.dbPgid = Max(s.dbPgid, UsedPages(s.work)),
                   !.flushes = s.flushes + 1,
                   !.at = "ok"]
    ELSE [s EXCEPT !.tx.open = FALSE, !.at = "err"]

\* mutant of commit: a stop commit sets t.tx to nil
commitStopDropsHandle(s, stop, ok) ==
    IF s.tx # NoTx
    THEN IF CommitReturnsEarly(s.pending, stop)
         THEN [s EXCEPT !.at = "return"]
         ELSE LET c == TxCommit(s, ok)
                  d == [c EXCEPT !.commits = s.commits + 1, !.pending = 0]
              IN IF c.at = "err" THEN [d EXCEPT !.at = "fatal"]
                 ELSE IF stop THEN [d EXCEPT !.tx = NoTx, !.at = "return"]
                 ELSE [d EXCEPT !.at = "rlock"]
    ELSE IF stop THEN [s EXCEPT !.at = "return"]
         ELSE [s EXCEPT !.at = "rlock"]

\* mutant of commit: with nothing pending the flush is skipped, not the reopen
commitReopensWithoutFlush(s, stop, ok) ==
    IF s.tx # NoTx
    THEN IF CommitReturnsEarly(s.pending, stop)
         THEN [s EXCEPT !.at = "rlock"]
         ELSE LET c == TxCommit(s, ok)
                  d == [c EXCEPT !.commits = s.commits + 1, !.pending = 0]
              IN IF c.at = "err" THEN [d EXCEPT !.at = "fatal"]
                 ELSE IF stop THEN [d EXCEPT !.at = "return"]
                 ELSE [d EXCEPT !.at = "rlock"]
    ELSE IF stop THEN [s EXCEPT !.at = "return"]
         ELSE [s EXCEPT !.at = "rlock"]

\* mutant of commit: the commit is counted before the early return
commitCountsFirst(s, stop, ok) ==
    IF s.tx # NoTx
    THEN IF CommitReturnsEarly(s.pending, stop)
         THEN [s EXCEPT !.commits = s.commits + 1, !.at = "return"]
         ELSE LET c == TxCommit(s, ok)
                  d == [c EXCEPT !.commits = s.commits + 1, !.pending = 0]
              IN IF c.at = "err" THEN [d EXCEPT !.at = "fatal"]
                 ELSE IF stop THEN [d EXCEPT !.at = "return"]
                 ELSE [d EXCEPT !.at = "rlock"]
    ELSE IF stop THEN [s EXCEPT !.at = "return"]
         ELSE [s EXCEPT !.at = "rlock"]

\* commit(stop), up to the point where it returns, dies or asks for backend.mu
commit(s, stop, ok) ==
    IF s.tx # NoTx
    THEN IF CommitReturnsEarly(s.pending, stop)
         THEN [s EXCEPT !.at = "return"]
         ELSE LET c == TxCommit(s, ok)
                  d == [c EXCEPT !.commits = s.commits + 1, !.pending = 0]
              IN IF c.at = "err" THEN [d EXCEPT !.at = "fatal"]
                 ELSE IF stop THEN [d EXCEPT !.at = "return"]
                 ELSE [d EXCEPT !.at = "rlock"]
    ELSE IF stop THEN [s EXCEPT !.at = "return"]
         ELSE [s EXCEPT !.at = "rlock"]

\* the published size and size in use of a transaction begun on the store
PublishedSize(pgid) == TxSize(pgid)
PublishedSizeInUse(pgid, d) == TxSize(pgid) - FreePageN(pgid, d) * PageSize

\* mutant of commit: the size in use is not stored after the begin
commitBeginKeepsSizeInUse(s, ok) ==
    IF ok
    THEN [s EXCEPT !.tx = [id |-> s.tx.id + 1, open |-> TRUE],
                   !.work = s.disk,
                   !.size = PublishedSize(s.dbPgid),
                   !.at = "return"]
    ELSE [s EXCEPT !.tx = NoTx, !.at = "fatal"]

\* commit(false) from backend.mu.RLock on: begin, publish; ok is the store's answer
commitBegin(s, ok) ==
    IF ok
    THEN [s EXCEPT !.tx = [id |-> s.tx.id + 1, open |-> TRUE],
                   !.work = s.disk,
                   !.size = PublishedSize(s.dbPgid),
                   !.sizeInUse = PublishedSizeInUse(s.dbPgid, s.disk),
                   !.at = "return"]
    ELSE [s EXCEPT !.tx = NoTx, !.at = "fatal"]

\* Unlock(): the threshold check, the commit it forces, and the release
UnlockBody(s, limit, ok) ==
    IF ThresholdReached(s.pending, limit)
    THEN LET r == commit(s, FALSE, ok)
         IN IF r.at = "return" THEN [r EXCEPT !.pending = 0, !.at = "released"]
            ELSE r
    ELSE [s EXCEPT !.at = "released"]

\* what the handler op saw when it was entered; from: the caller of commit
EntryOf(o, from) ==
    [op |-> o, from |-> from, pending |-> pending, commits |-> commits,
     flushes |-> flushes, txid |-> tx.id, size |-> size, sizeInUse |-> sizeInUse]

\* mutant of Proceed: the handler returns without t.Mutex.Unlock()
ProceedWithoutUnlock(t, r, e) ==
    /\ r.commits <= MaxCommits
    /\ Install(r)
    /\ ret' = IF r.at = "released" THEN [op |-> e.op] ELSE NoRet
    /\ UNCHANGED <<batchLimit, muWriter>>
    /\ CASE r.at = "released" ->
              /\ mutex' = t
              /\ pc' = [pc EXCEPT ![t] = "idle"]
              /\ entry' = NoEntry
              /\ muReaders' = muReaders \ {t}
              /\ fatal' = fatal
         [] r.at = "rlock" ->
              /\ mutex' = t
              /\ pc' = [pc EXCEPT ![t] = "rlock"]
              /\ entry' = e
              /\ muReaders' = muReaders \ {t}
              /\ fatal' = fatal
         [] r.at = "fatal" ->
              /\ mutex' = t
              /\ pc' = pc
              /\ entry' = e
              /\ muReaders' = muReaders
              /\ fatal' = TRUE

\* where a handler that holds the mutex goes next
Proceed(t, r, e) ==
    /\ r.commits <= MaxCommits
    /\ Install(r)
    /\ ret' = IF r.at = "released" THEN [op |-> e.op] ELSE NoRet
    /\ UNCHANGED <<batchLimit, muWriter>>
    /\ CASE r.at = "released" ->
              /\ mutex' = NoThread
              /\ pc' = [pc EXCEPT ![t] = "idle"]
              /\ entry' = NoEntry
              /\ muReaders' = muReaders \ {t}
              /\ fatal' = fatal
         [] r.at = "rlock" ->
              /\ mutex' = t
              /\ pc' = [pc EXCEPT ![t] = "rlock"]
              /\ entry' = e
              /\ muReaders' = muReaders \ {t}
              /\ fatal' = fatal
         [] r.at = "fatal" ->
              /\ mutex' = t
              /\ pc' = pc
              /\ entry' = e
              /\ muReaders' = muReaders
              /\ fatal' = TRUE

Live == ~fatal
Constructed == tx # NoTx
InBracket(t) == Live /\ mutex = t /\ pc[t] = "bracket"
CanEnter(t) == Live /\ Constructed /\ mutex = NoThread /\ pc[t] = "idle"

\* ------------------------------------------------------------- handlers
\* newBatchTx: the Commit() of the constructor, on a batchTx without a handle
newBatchTx(t) ==
    /\ Live /\ ~Constructed /\ mutex = NoThread /\ pc[t] = "idle"
    /\ \E ok \in BOOLEAN :
         Proceed(t, commit(Cur, FALSE, ok), EntryOf("newBatchTx", "Commit"))
    /\ UNCHANGED histVars

\* mutant of Lock: it does not wait for the mutex
LockWithoutWaiting(t) ==
    /\ Live /\ Constructed /\ pc[t] = "idle"
    /\ mutex' = t
    /\ pc' = [pc EXCEPT ![t] = "bracket"]
    /\ ret' = NoRet
    /\ local' = [local EXCEPT ![t] = serial]
    /\ UNCHANGED <<batchLimit, entry, storeVars, pending, metricVars, muVars, fatal,
                   serial, stopped>>

\* Lock()
Lock(t) ==
    /\ CanEnter(t)
    /\ mutex' = t
    /\ pc' = [pc EXCEPT ![t] = "bracket"]
    /\ ret' = NoRet
    /\ local' = [local EXCEPT ![t] = serial]
    /\ UNCHANGED <<batchLimit, entry, storeVars, pending, metricVars, muVars, fatal,
                   serial, stopped>>

\* Unlock()
Unlock(t) ==
    /\ InBracket(t)
    /\ \E ok \in BOOLEAN :
         Proceed(t, UnlockBody(Cur, batchLimit, ok), EntryOf("Unlock", "Unlock"))
    /\ serial' = local[t]
    /\ local' = [local EXCEPT ![t] = EmptyMap]
    /\ UNCHANGED stopped

\* Commit(): Lock, commit(false), and Unlock when commit returned at once
Commit(t) ==
    /\ CanEnter(t)
    /\ \E ok \in BOOLEAN :
         LET r == commit(Cur, FALSE, ok)
         IN Proceed(t, IF r.at = "return" THEN UnlockBody(r, batchLimit, ok) ELSE r,
                    EntryOf("Commit", "Commit"))
    /\ UNCHANGED histVars

\* CommitAndStop(): Lock, commit(true), Unlock
CommitAndStop(t) ==
    /\ CanEnter(t)
    /\ \E ok \in BOOLEAN :
         LET r == commit(Cur, TRUE, ok)
         IN Proceed(t, IF r.at = "return" THEN UnlockBody(r, batchLimit, ok) ELSE r,
                    EntryOf("CommitAndStop", "CommitAndStop"))
    /\ stopped' = TRUE
    /\ UNCHANGED <<serial, local>>

\* mutant of RLock: commit goes on to begin without t.backend.mu.RLock()
RLockNotTaken(t) ==
    /\ Live /\ mutex = t /\ pc[t] = "rlock"
    /\ pc' = [pc EXCEPT ![t] = "begin"]
    /\ ret' = NoRet
    /\ UNCHANGED <<batchLimit, mutex, entry, storeVars, pending, metricVars, muVars,
                   fatal, histVars>>

\* commit: t.backend.mu.RLock() is granted
RLock(t) ==
    /\ Live /\ mutex = t /\ pc[t] = "rlock"
    /\ ~muWriter
    /\ muReaders' = muReaders \cup {t}
    /\ pc' = [pc EXCEPT ![t] = "begin"]
    /\ ret' = NoRet
    /\ UNCHANGED <<batchLimit, mutex, entry, storeVars, pending, metricVars, muWriter,
                   fatal, histVars>>

\* commit: begin the new transaction, publish, RUnlock, and back in the caller
Begin(t) ==
    /\ Live /\ mutex = t /\ pc[t] = "begin"
    /\ \E ok, ok2 \in BOOLEAN :
         LET r == commitBegin(Cur, ok)
         IN Proceed(t,
                IF r.at # "return" THEN r
                ELSE IF entry.from = "Unlock"
                     THEN [r EXCEPT !.pending = 0, !.at = "released"]
                     ELSE UnlockBody(r, batchLimit, ok2),
                [entry EXCEPT !.from = "Unlock"])
    /\ UNCHANGED histVars

\* plog.Fatalf, or the panic of a call on a closed handle: the process ends
Die ==
    /\ fatal' = TRUE
    /\ ret' = NoRet
    /\ UNCHANGED <<batchLimit, mutex, pc, entry, storeVars, pending, metricVars, muVars,
                   histVars>>

\* the reference content after the mutation m = [kind, bucket, key, value]
RefApply(c, m) ==
    CASE m.kind = "create" ->
           IF m.bucket \in DOMAIN c THEN c ELSE (m.bucket :> EmptyMap) @@ c
      [] m.kind = "put" ->
           [c EXCEPT ![m.bucket] = (m.key :> m.value) @@ c[m.bucket]]
      [] m.kind = "delete" ->
           [c EXCEPT ![m.bucket] = [k \in {x \in DOMAIN c[m.bucket] : x # m.key} |->
                                      c[m.bucket][k]]]

\* mutant of Mutated: the mutation is written through to the durable content
MutatedWritesThrough(t, w, m) ==
    /\ work' = w
    /\ disk' = w
    /\ pending' = pending + 1
    /\ ret' = NoRet
    /\ local' = [local EXCEPT ![t] = RefApply(local[t], m)]
    /\ UNCHANGED <<batchLimit, mutex, pc, entry, tx, dbPgid, flushes,
                   metricVars, muVars, fatal, serial, stopped>>

\* mutant of Mutated: the threshold is checked, and the batch flushed and the
\* handle replaced, by the mutation that reaches it
MutatedCommitsAtThreshold(t, w, m) ==
    /\ work' = w
    /\ ret' = NoRet
    /\ local' = [local EXCEPT ![t] = RefApply(local[t], m)]
    /\ IF ThresholdReached(pending + 1, batchLimit) /\ commits < MaxCommits
       THEN /\ pending' = 0
            /\ disk' = w
            /\ flushes' = flushes + 1
            /\ commits' = commits + 1
            /\ tx' = [tx EXCEPT !.id = tx.id + 1]
       ELSE /\ pending' = pending + 1
            /\ UNCHANGED <<disk, flushes, commits, tx>>
    /\ UNCHANGED <<batchLimit, mutex, pc, entry, dbPgid, size, sizeInUse, muVars,
                   fatal, serial, stopped>>

\* mutant of Mutated: a mutation that left the content as it was is not counted
MutatedCountsChanges(t, w, m) ==
    /\ work' = w
    /\ pending' = IF w = work THEN pending ELSE pending + 1
    /\ ret' = NoRet
    /\ local' = [local EXCEPT ![t] = RefApply(local[t], m)]
    /\ UNCHANGED <<batchLimit, mutex, pc, entry, tx, disk, dbPgid, flushes,
                   metricVars, muVars, fatal, serial, stopped>>

\* the mutation m of thread t went through: the handle's content is w, t.pending++
Mutated(t, w, m) ==
    /\ work' = w
    /\ pending' = pending + 1
    /\ ret' = NoRet
    /\ local' = [local EXCEPT ![t] = RefApply(local[t], m)]
    /\ UNCHANGED <<batchLimit, mutex, pc, entry, tx, disk, dbPgid, flushes,
                   metricVars, muVars, fatal, serial, stopped>>

\* a read returned r
Returned(r) ==
    /\ ret' = r
    /\ UNCHANGED <<batchLimit, mutex, pc, entry, storeVars, pending, metricVars,
                   muVars, fatal, histVars>>

\* mutant of UnsafeCreateBucket: ErrBucketExists is fatal like any other error
UnsafeCreateBucketStrict(t, name) ==
    /\ InBracket(t)
    /\ pending < MaxPending
    /\ \E ok \in BOOLEAN :
         LET r == IF tx.open THEN TxCreateBucket(work, name, ok)
                  ELSE [err |-> "ErrTxClosed", w |-> work]
         IN IF r.err # "nil" THEN Die
            ELSE Mutated(t, r.w, [kind |-> "create", bucket |-> name])

\* UnsafeCreateBucket(name)
UnsafeCreateBucket(t, name) ==
    /\ InBracket(t)
    /\ pending < MaxPending
    /\ \E ok \in BOOLEAN :
         LET r == IF tx.open THEN TxCreateBucket(work, name, ok)
                  ELSE [err |-> "ErrTxClosed", w |-> work]
         IN IF r.err # "nil" /\ r.err # "ErrBucketExists" THEN Die
            ELSE Mutated(t, r.w, [kind |-> "create", bucket |-> name])

\* mutant of unsafePut: a missing bucket is skipped in silence, as in UnsafeForEach
unsafePutSkipsMissingBucket(t, bucketName, key, value, seq) ==
    /\ InBracket(t)
    /\ pending < MaxPending
    /\ \E ok \in BOOLEAN :
         IF ~tx.open THEN Die
         ELSE IF ~HasBucket(work, bucketName) THEN Returned([op |-> "Put"])
         ELSE IF ~ok THEN Die
         ELSE Mutated(t, [work EXCEPT ![bucketName] = BucketPut(@, key, value)],
                      [kind |-> "put", bucket |-> bucketName, key |-> key,
                       value |-> value])

\* unsafePut(bucketName, key, value, seq); seq only sets the bucket's fill percent
unsafePut(t, bucketName, key, value, seq) ==
    /\ InBracket(t)
    /\ pending < MaxPending
    /\ \E ok \in BOOLEAN :
         IF ~tx.open \/ ~HasBucket(work, bucketName) THEN Die
         ELSE IF ~ok THEN Die
         ELSE Mutated(t, [work EXCEPT ![bucketName] = BucketPut(@, key, value)],
                      [kind |-> "put", bucket |-> bucketName, key |-> key,
                       value |-> value])

\* UnsafePut(bucketName, key, value)
UnsafePut(t, bucketName, key, value) == unsafePut(t, bucketName, key, value, FALSE)

\* UnsafeSeqPut(bucketName, key, value)
UnsafeSeqPut(t, bucketName, key, value) == unsafePut(t, bucketName, key, value, TRUE)

\* mutant of UnsafeDelete: bucket.Delete is not called
UnsafeDeleteKeepsKey(t, bucketName, key) ==
    /\ InBracket(t)
    /\ pending < MaxPending
    /\ \E ok \in BOOLEAN :
         IF ~tx.open \/ ~HasBucket(work, bucketName) THEN Die
         ELSE IF ~ok THEN Die
         ELSE Mutated(t, work, [kind |-> "delete", bucket |-> bucketName, key |-> key])

\* UnsafeDelete(bucketName, key)
UnsafeDelete(t, bucketName, key) ==
    /\ InBracket(t)
    /\ pending < MaxPending
    /\ \E ok \in BOOLEAN :
         IF ~tx.open \/ ~HasBucket(work, bucketName) THEN Die
         ELSE IF ~ok THEN Die
         ELSE Mutated(t, [work EXCEPT ![bucketName] = BucketDelete(@, key)],
                      [kind |-> "delete", bucket |-> bucketName, key |-> key])

\* mutant of the cursor loop: endKey is taken as inclusive
RECURSIVE RangeLoopInclusive(_, _, _, _, _, _)
RangeLoopInclusive(content, ck, endKey, limit, keys, vs) ==
    IF ck # NilKey /\ BytesCompare(ck, endKey) <= 0
    THEN LET vs2 == Append(vs, content[ck])
             keys2 == Append(keys, ck)
         IN IF limit > 0 /\ limit = Len(keys2) THEN <<keys2, vs2>>
            ELSE RangeLoopInclusive(content, CursorNext(content, ck), endKey, limit,
                                    keys2, vs2)
    ELSE <<keys, vs>>

\* UnsafeRange: the cursor loop from ck on
RECURSIVE RangeLoop(_, _, _, _, _, _)
RangeLoop(content, ck, endKey, limit, keys, vs) ==
    IF ck # NilKey /\ BytesCompare(ck, endKey) < 0
    THEN LET vs2 == Append(vs, content[ck])
             keys2 == Append(keys, ck)
         IN IF limit > 0 /\ limit = Len(keys2) THEN <<keys2, vs2>>
            ELSE RangeLoop(content, CursorNext(content, ck), endKey, limit, keys2, vs2)
    ELSE <<keys, vs>>

\* UnsafeRange on a bucket that exists: <<keys, vs>>
RangeResult(content, key, endKey, limit) ==
    IF Len(endKey) = 0
    THEN LET v == BucketGet(content, key)
         IN IF v = NilValue THEN <<<<>>, <<>>>> ELSE <<<<key>>, <<v>>>>
    ELSE RangeLoop(content, CursorSeek(content, key), endKey, limit, <<>>, <<>>)

\* UnsafeRange(bucketName, key, endKey, limit)
UnsafeRange(t, bucketName, key, endKey, limit) ==
    /\ InBracket(t)
    /\ IF ~tx.open \/ ~HasBucket(work, bucketName) THEN Die
       ELSE LET r == RangeResult(work[bucketName], key, endKey, limit)
            IN Returned([op |-> "Range", bucket |-> bucketName, key |-> key,
                         endKey |-> endKey, limit |-> limit,
                         keys |-> r[1], vs |-> r[2]])

\* bucket.ForEach(visitor) from ck on; the visitor fails on the key failOn
RECURSIVE BucketForEach(_, _, _, _)
BucketForEach(content, ck, failOn, visited) ==
    IF ck = NilKey THEN [visited |-> visited, err |-> "nil"]
    ELSE LET seen == Append(visited, <<ck, content[ck]>>)
         IN IF ck = failOn THEN [visited |-> seen, err |-> "visitor"]
            ELSE BucketForEach(content, CursorNext(content, ck), failOn, seen)

\* mutant of UnsafeForEach: the visitor's error is not returned
ForEachResultSwallowsError(w, bucketName, failOn) ==
    IF ~HasBucket(w, bucketName) THEN [visited |-> <<>>, err |-> "nil"]
    ELSE [BucketForEach(w[bucketName], CursorSeek(w[bucketName], NilKey), failOn, <<>>)
            EXCEPT !.err = "nil"]

\* UnsafeForEach on an open handle: the pairs visited and the error returned
ForEachResult(w, bucketName, failOn) ==
    IF ~HasBucket(w, bucketName) THEN [visited |-> <<>>, err |-> "nil"]
    ELSE BucketForEach(w[bucketName], CursorSeek(w[bucketName], NilKey), failOn, <<>>)

\* UnsafeForEach(bucketName, visitor)
UnsafeForEach(t, bucketName, failOn) ==
    /\ InBracket(t)
    /\ IF ~tx.open THEN Die
       ELSE LET r == ForEachResult(work, bucketName, failOn)
            IN Returned([op |-> "ForEach", bucket |-> bucketName, failOn |-> failOn,
                         visited |-> r.visited, err |-> r.err])

\* a backend-wide operation takes backend.mu exclusively
BackendLock ==
    /\ Live /\ Constructed
    /\ ~muWriter /\ muReaders = {}
    /\ muWriter' = TRUE
    /\ ret' = NoRet
    /\ UNCHANGED <<batchLimit, mutex, pc, entry, storeVars, pending, metricVars,
                   muReaders, fatal, histVars>>

\* and releases it
BackendUnlock ==
    /\ Live /\ muWriter
    /\ muWriter' = FALSE
    /\ ret' = NoRet
    /\ UNCHANGED <<batchLimit, mutex, pc, entry, storeVars, pending, metricVars,
                   muReaders, fatal, histVars>>

Next ==
    \/ \E t \in Threads : newBatchTx(t)
    \/ \E t \in Threads : Lock(t)
    \/ \E t \in Threads : Unlock(t)
    \/ \E t \in Threads : Commit(t)
    \/ \E t \in Threads : CommitAndStop(t)
    \/ \E t \in Threads : RLock(t)
    \/ \E t \in Threads : Begin(t)
    \/ \E t \in Threads, b \in BucketNames : UnsafeCreateBucket(t, b)
    \/ \E t \in Threads, b \in BucketNames, k \in Keys, v \in Values :
         UnsafePut(t, b, k, v)
    \/ \E t \in Threads, b \in BucketNames, k \in Keys, v \in Values :
         UnsafeSeqPut(t, b, k, v)
    \/ \E t \in Threads, b \in BucketNames, k \in Keys : UnsafeDelete(t, b, k)
    \/ \E t \in Threads, b \in BucketNames, a \in RangeArgs :
         UnsafeRange(t, b, a[1], a[2], a[3])
    \/ \E t \in Threads, b \in BucketNames, f \in Visitors : UnsafeForEach(t, b, f)
    \/ BackendLock
    \/ BackendUnlock

Spec == Init /\ [][Next]_vars

\* a bracket that the bound on the commit counter keeps from unlocking
AtCommitBound == commits = MaxCommits /\ pending > 0 /\ pending >= batchLimit

\* SpecLive: the steps of Spec that stay clear of the bound, scheduled fairly:
\* the constructor runs, a thread that holds the mutex calls Unlock, the store's
\* begin returns (weak fairness), a Lock or an RLock that is possible again and
\* again is granted (sync.Mutex and sync.RWMutex hand over to a waiter)
\* with one key, one value and one scan as the inputs of the calls in a bracket
LiveKeys == {<<1>>}
LiveValues == {10}
LiveRangeArgs == {<<NilKey, <<3>>, 0>>}

NextLive ==
    \/ \E t \in Threads : newBatchTx(t)
    \/ \E t \in Threads : Lock(t)
    \/ \E t \in Threads : Unlock(t)
    \/ \E t \in Threads : Commit(t)
    \/ \E t \in Threads : CommitAndStop(t)
    \/ \E t \in Threads : RLock(t)
    \/ \E t \in Threads : Begin(t)
    \/ \E t \in Threads, b \in BucketNames :
         UnsafeCreateBucket(t, b) /\ ~AtCommitBound'
    \/ \E t \in Threads, b \in BucketNames, k \in LiveKeys, v \in LiveValues :
         UnsafePut(t, b, k, v) /\ ~AtCommitBound'
    \/ \E t \in Threads, b \in BucketNames, k \in LiveKeys, v \in LiveValues :
         UnsafeSeqPut(t, b, k, v) /\ ~AtCommitBound'
    \/ \E t \in Threads, b \in BucketNames, k \in LiveKeys :
         UnsafeDelete(t, b, k) /\ ~AtCommitBound'
    \/ \E t \in Threads, b \in BucketNames, a \in LiveRangeArgs :
         UnsafeRange(t, b, a[1], a[2], a[3])
    \/ \E t \in Threads, b \in BucketNames, f \in Visitors : UnsafeForEach(t, b, f)
    \/ BackendLock
    \/ BackendUnlock

Fairness ==
    \A t \in Threads :
        /\ WF_vars(newBatchTx(t))
        /\ WF_vars(Unlock(t))
        /\ WF_vars(Begin(t))
        /\ SF_vars(Lock(t))
        /\ SF_vars(RLock(t))

SpecLive == Init /\ [][NextLive]_vars /\ Fairness

\* SpecLimit: the steps of SpecLive, without its fairness, from a batchTx whose
\* threshold may also be negative (backend.batchLimit is an int)
MinBatchLimit == -1

InitLimit ==
    /\ batchLimit \in MinBatchLimit..MaxBatchLimit
    /\ mutex = NoThread
    /\ pc = [t \in Threads |-> "idle"]
    /\ entry = NoEntry
    /\ tx = NoTx
    /\ work = EmptyMap
    /\ disk = EmptyMap
    /\ dbPgid = BasePages
    /\ flushes = 0
    /\ pending = 0
    /\ commits = 0
    /\ size = 0
    /\ sizeInUse = 0
    /\ muReaders = {}
    /\ muWriter = FALSE
    /\ fatal = FALSE
    /\ ret = NoRet
    /\ serial = EmptyMap
    /\ local = [t \in Threads |-> EmptyMap]
    /\ stopped = FALSE

SpecLimit == InitLimit /\ [][NextLive]_vars

\* the contents a bucket can have over ScanKeys
ScanContents ==
    UNION {[ks -> Values] : ks \in SUBSET ScanKeys}

\* SpecRead: thread 1 has filled the bucket "key" in one bracket, the content
\* was committed once, and thread 1 is in its next bracket
InitRead ==
    \E m \in ScanContents :
        LET c == [b \in {"key"} |-> m]
            pg == Max(BasePages, UsedPages(c))
        IN /\ batchLimit = MaxBatchLimit
           /\ mutex = 1
           /\ pc = [t \in Threads |-> IF t = 1 THEN "bracket" ELSE "idle"]
           /\ entry = NoEntry
           /\ tx = [id |-> 2, open |-> TRUE]
           /\ work = c
           /\ disk = c
           /\ dbPgid = pg
           /\ flushes = 1
           /\ pending = 0
           /\ commits = 1
           /\ size = PublishedSize(pg)
           /\ sizeInUse = PublishedSizeInUse(pg, c)
           /\ muReaders = {}
           /\ muWriter = FALSE
           /\ fatal = FALSE
           /\ ret = NoRet
           /\ serial = c
           /\ local = [t \in Threads |-> IF t = 1 THEN c ELSE EmptyMap]
           /\ stopped = FALSE

NextRead ==
    \/ \E t \in Threads, b \in ScanBuckets, k \in ScanStartKeys, e \in ScanEndKeys,
          n \in ScanLimits : UnsafeRange(t, b, k, e, n)
    \/ \E t \in Threads, b \in ScanBuckets, f \in ScanVisitors : UnsafeForEach(t, b, f)

SpecRead == InitRead /\ [][NextRead]_vars

\* SpecCreate: from the same states, thread 1 calls UnsafeCreateBucket for the
\* bucket that is there and for one that is not
NextCreate ==
    \E t \in Threads, b \in ScanBuckets : UnsafeCreateBucket(t, b)

SpecCreate == InitRead /\ [][NextCreate]_vars

\* ---------------------------------------------------------------- claims
\* what the handler that runs in this step saw when it was entered
EntryPending == IF entry.op = "none" THEN pending ELSE entry.pending
EntryCommits == IF entry.op = "none" THEN commits ELSE entry.commits
EntryFlushes == IF entry.op = "none" THEN flushes ELSE entry.flushes
EntrySize == IF entry.op = "none" THEN size ELSE entry.size
EntrySizeInUse == IF entry.op = "none" THEN sizeInUse ELSE entry.sizeInUse

\* C1: with a threshold K >= 1, an Unlock entered with pending >= K does not
\* release the mutex before it has flushed and reopened: its first step is
\* the one flush (commit counter + 1, pending 0) and keeps the mutex; when the
\* mutex is released the handler has flushed exactly once, counted exactly one
\* commit, pending is 0 and the handle is a new, open one; the next mutation
\* makes pending 1.
C1_UnlockAtThreshold ==
    [][/\ \A t \in Threads :
            (/\ pc[t] = "bracket" /\ mutex = t
             /\ batchLimit >= 1 /\ pending >= batchLimit
             /\ (pc'[t] # "bracket" \/ mutex' # t))
            => /\ pc'[t] = "rlock" /\ mutex' = t
               /\ entry'.op = "Unlock" /\ entry'.pending = pending
               /\ flushes' = flushes + 1 /\ commits' = commits + 1
               /\ pending' = 0
       /\ (/\ entry.op = "Unlock" /\ batchLimit >= 1
           /\ entry.pending >= batchLimit /\ mutex' = NoThread)
          => /\ flushes' = entry.flushes + 1 /\ commits' = entry.commits + 1
             /\ pending' = 0 /\ tx'.open /\ tx'.id > entry.txid
             /\ work' = disk' /\ ret'.op = "Unlock"
       /\ (pending = 0 /\ pending' # pending) => pending' = 1
      ]_vars

\* C1 witness: an Unlock entered at or above the threshold has flushed and is
\* about to open the replacement, the mutex still held
C1_Witness ==
    \E t \in Threads :
        /\ pc[t] = "begin" /\ mutex = t /\ ~fatal
        /\ entry.op = "Unlock" /\ batchLimit >= 1 /\ entry.pending >= batchLimit
        /\ commits = entry.commits + 1 /\ pending = 0

\* C2: with a threshold K >= 1, an Unlock entered with pending < K only
\* releases the mutex: commit counter, pending, handle, published sizes and
\* the store are unchanged
C2_UnlockBelowThreshold ==
    [][\A t \in Threads :
          (/\ pc[t] = "bracket" /\ mutex = t
           /\ batchLimit >= 1 /\ pending < batchLimit
           /\ pc'[t] # "bracket")
          => /\ mutex' = NoThread /\ pc'[t] = "idle" /\ ~fatal'
             /\ ret'.op = "Unlock"
             /\ UNCHANGED <<commits, pending, tx, size, sizeInUse, flushes, work,
                            disk, dbPgid>>
      ]_vars

\* C2 witness: the mutex is free after an Unlock that left pending mutations
\* below the threshold
C2_Witness ==
    /\ mutex = NoThread /\ ret.op = "Unlock" /\ ~fatal
    /\ pending >= 1 /\ pending < batchLimit

\* C3 as claimed: every Commit() entered with pending = 0, the constructor's
\* included, flushes nothing, counts no commit and publishes nothing
C3_Original ==
    [][(ret'.op \in {"Commit", "newBatchTx"} /\ EntryPending = 0)
       => /\ flushes' = EntryFlushes /\ commits' = EntryCommits
          /\ size' = EntrySize /\ sizeInUse' = EntrySizeInUse
      ]_vars

\* C3 amended: a Commit() entered with pending = 0 on a batchTx that has a
\* handle changes nothing (no flush, no commit counted, sizes, handle and
\* store untouched); the Commit() of the constructor, entered without a
\* handle, flushes nothing and counts no commit but begins the first
\* transaction and publishes size and size in use
C3_CommitNoop ==
    [][/\ (ret'.op = "Commit" /\ EntryPending = 0)
          => /\ flushes' = EntryFlushes /\ commits' = EntryCommits
             /\ size' = EntrySize /\ sizeInUse' = EntrySizeInUse
             /\ UNCHANGED <<tx, work, disk, pending>>
       /\ (ret'.op = "newBatchTx" /\ ret.op # "newBatchTx")
          => /\ flushes' = EntryFlushes /\ commits' = EntryCommits
             /\ EntryPending = 0 /\ pending' = 0
             /\ tx'.open /\ tx'.id = 1
             /\ size' = dbPgid' * PageSize
             /\ sizeInUse' = UsedPages(disk') * PageSize
             /\ size' # EntrySize
      ]_vars

\* C3 witness: a Commit() has returned on a constructed batchTx and still no
\* commit was ever counted
C3_Witness ==
    /\ ret.op = "Commit" /\ tx.open /\ ~fatal
    /\ pending = 0 /\ commits = 0 /\ flushes = 0 /\ size > 0

\* C4: a CommitAndStop on an open handle that returns has flushed exactly
\* once whatever pending was: commit counter + 1, pending 0, the content of
\* the handle is durable, no new handle was begun and the handle is closed
C4_CommitAndStop ==
    [][(ret'.op = "CommitAndStop" /\ ret.op # "CommitAndStop" /\ tx.open)
       => /\ flushes' = flushes + 1 /\ commits' = commits + 1
          /\ pending' = 0 /\ disk' = work
          /\ tx'.id = tx.id /\ ~tx'.open
          /\ mutex' = NoThread /\ ~fatal'
      ]_vars

\* C4 witness: CommitAndStop has returned after flushing a handle with no
\* pending mutation (nothing was ever written, one commit is counted)
C4_Witness ==
    /\ ret.op = "CommitAndStop" /\ ~tx.open /\ ~fatal
    /\ commits = 1 /\ flushes = 1 /\ disk = EmptyMap /\ pending = 0

\* a < b on byte strings, stated without recursion: a is a proper prefix of b,
\* or at the first place where they differ a has the smaller byte
KeyLess(a, b) ==
    \E i \in 1..Len(b) :
        /\ i <= Len(a) + 1
        /\ \A j \in 1..(i - 1) : a[j] = b[j]
        /\ (i = Len(a) + 1 \/ a[i] < b[i])

\* the keys of S as a strictly ascending sequence
SortedKeys(S) ==
    CHOOSE q \in [1..Cardinality(S) -> S] :
        \A i, j \in 1..Cardinality(S) : i < j => KeyLess(q[i], q[j])

\* the reference result of Range on a bucket's content
RangeRef(content, key, endKey, limit) ==
    IF endKey = NilKey
    THEN IF key \in DOMAIN content THEN <<<<key>>, <<content[key]>>>>
         ELSE <<<<>>, <<>>>>
    ELSE LET all == SortedKeys({k \in DOMAIN content :
                                  ~KeyLess(k, key) /\ KeyLess(k, endKey)})
             n == IF limit > 0 /\ limit < Len(all) THEN limit ELSE Len(all)
         IN <<[i \in 1..n |-> all[i]], [i \in 1..n |-> content[all[i]]]>>

\* every pair of a bucket's content, in ascending key order
AllPairs(content) ==
    LET all == SortedKeys(DOMAIN content)
    IN [i \in 1..Len(all) |-> <<all[i], content[all[i]]>>]

\* C5: a Range or ForEach sees exactly the mutations of the closed brackets
\* and of its own bracket applied in call order to the bucket (last write
\* wins, deleted keys absent), whatever the threshold, so whether or not an
\* Unlock in between committed and reopened
C5_ReadsSeeNetEffect ==
    (~fatal /\ mutex # NoThread /\ ret.op \in {"Range", "ForEach"})
    => LET c == local[mutex]
       IN /\ ret.op = "Range"
             => /\ ret.bucket \in DOMAIN c
                /\ <<ret.keys, ret.vs>> =
                     RangeRef(c[ret.bucket], ret.key, ret.endKey, ret.limit)
          /\ (ret.op = "ForEach" /\ ret.failOn = NilKey)
             => /\ ret.err = "nil"
                /\ ret.visited = IF ret.bucket \in DOMAIN c
                                 THEN AllPairs(c[ret.bucket]) ELSE <<>>

\* C5 witness: with threshold 1 every bracket that mutates ends in a forced
\* commit; a scan in a later bracket returns the two keys written before
C5_Witness ==
    /\ ~fatal /\ batchLimit = 1 /\ commits >= 1 /\ pending = 0 /\ tx.open
    /\ ret.op = "Range" /\ ret.endKey # NilKey /\ Len(ret.keys) = 2

\* C6: UnsafeRange on an existing bucket returns the reference result: the
\* one pair of key with an empty endKey (nothing when key is absent, whatever
\* the limit), else the keys k with key <= k < endKey in strictly ascending
\* order with their values, cut to the first limit of them when limit > 0
C6_RangeIsReference ==
    (~fatal /\ ret.op = "Range")
    => /\ ret.bucket \in DOMAIN work
       /\ <<ret.keys, ret.vs>> =
            RangeRef(work[ret.bucket], ret.key, ret.endKey, ret.limit)
       /\ Len(ret.keys) = Len(ret.vs)

\* C6 witness: a scan of a bucket of three keys cut to its first two by limit 2
C6_Witness ==
    /\ ret.op = "Range" /\ ret.limit = 2 /\ ret.key = NilKey /\ ret.endKey = <<3>>
    /\ Cardinality(DOMAIN work[ret.bucket]) = 3
    /\ ret.keys = <<(<<1>>), (<<1, 2>>)>>

\* C7: UnsafeForEach visits the pairs in ascending key order; when the visitor
\* fails on a key of the bucket the visited pairs are those up to and with
\* that key and its error is returned; when it never fails all pairs are
\* visited once and nil is returned; on a missing bucket nothing is visited
\* and nil is returned
C7_ForEach ==
    (~fatal /\ ret.op = "ForEach")
    => IF ret.bucket \notin DOMAIN work
       THEN ret.visited = <<>> /\ ret.err = "nil"
       ELSE LET all == AllPairs(work[ret.bucket])
            IN IF ret.failOn \in DOMAIN work[ret.bucket]
               THEN /\ ret.err = "visitor"
                    /\ \E n \in 1..Len(all) :
                         /\ all[n][1] = ret.failOn
                         /\ ret.visited = [i \in 1..n |-> all[i]]
               ELSE ret.err = "nil" /\ ret.visited = all

\* C7 witness: the visitor failed on the second of three keys: two pairs
\* visited, the error returned
C7_Witness ==
    /\ ret.op = "ForEach" /\ ret.err = "visitor" /\ ret.failOn = <<1, 2>>
    /\ Len(ret.visited) = 2
    /\ Cardinality(DOMAIN work[ret.bucket]) = 3

\* C8 as claimed: the commit counter, size and size in use change only in a
\* handler in which a store flush has succeeded
C8_Original ==
    [][(commits' # commits \/ size' # size \/ sizeInUse' # sizeInUse)
       => flushes' > EntryFlushes
      ]_vars

\* C8 amended: the commit counter changes only in a step that calls the
\* store's flush, by exactly 1, whether the flush succeeds or fails (and the
\* process then ends in the fatal state); size and size in use change only in
\* a step that begins a transaction, which follows a successful flush of the
\* same handler or is the first begin of the constructor; so no mutation,
\* read, Lock, plain Unlock or early-returning commit changes any of the three
C8_MetricsChangeOnlyInCommit ==
    [][/\ commits' # commits
          => /\ commits' = commits + 1
             /\ \/ flushes' = flushes + 1 /\ disk' = work /\ ~fatal'
                \/ flushes' = flushes /\ disk' = disk /\ fatal' /\ ~fatal
             /\ ~tx'.open /\ tx'.id = tx.id
       /\ (size' # size \/ sizeInUse' # sizeInUse)
          => /\ tx'.open /\ tx'.id = tx.id + 1 /\ ~fatal'
             /\ \E t \in Threads : pc[t] = "begin" /\ mutex = t
             /\ \/ flushes = entry.flushes + 1 /\ commits = entry.commits + 1
                \/ entry.op = "newBatchTx" /\ flushes = 0 /\ commits = 0
      ]_vars

\* C8 witness: the constructor has published the size of the store and no
\* flush has happened and no commit is counted
C8_Witness ==
    /\ ~fatal /\ tx.open /\ tx.id = 1 /\ mutex = NoThread
    /\ flushes = 0 /\ commits = 0
    /\ size = BasePages * PageSize /\ sizeInUse = size

\* C9 as claimed: whenever a handler that has flushed successfully releases
\* the mutex (Commit, Unlock or CommitAndStop), the commit counter is one up
\* and size and size in use are those of the store after the flush
C9_Original ==
    [][(/\ mutex' = NoThread /\ ~fatal'
        /\ ret'.op \in {"Commit", "Unlock", "CommitAndStop"}
        /\ flushes' > EntryFlushes)
       => /\ commits' = EntryCommits + 1
          /\ size' = dbPgid' * PageSize
          /\ sizeInUse' = UsedPages(disk') * PageSize
      ]_vars

\* C9 amended: after a successful flush by Commit or by a threshold-triggered
\* Unlock the commit counter is one up and size and size in use are those of
\* the store after the flush, all before the mutex is released; after a
\* successful flush by CommitAndStop only the commit counter is one up: size
\* and size in use keep the values published at the last begin
C9_MetricsAfterFlush ==
    [][/\ (/\ mutex' = NoThread /\ ~fatal'
           /\ ret'.op \in {"Commit", "Unlock"}
           /\ flushes' > EntryFlushes)
          => /\ commits' = EntryCommits + 1
             /\ flushes' = EntryFlushes + 1
             /\ size' = dbPgid' * PageSize
             /\ sizeInUse' = UsedPages(disk') * PageSize
       /\ (/\ mutex' = NoThread /\ ~fatal'
           /\ ret'.op = "CommitAndStop"
           /\ flushes' > EntryFlushes)
          => /\ commits' = EntryCommits + 1
             /\ flushes' = EntryFlushes + 1
             /\ size' = size /\ sizeInUse' = sizeInUse
      ]_vars

\* C9 witness: CommitAndStop has flushed content that made the store grow,
\* and the published size is still the one of the last begin
C9_Witness ==
    /\ ~fatal /\ ret.op = "CommitAndStop" /\ mutex = NoThread
    /\ flushes >= 1 /\ disk = work
    /\ size # dbPgid * PageSize /\ sizeInUse # UsedPages(disk) * PageSize

\* C10: at most one thread is inside a bracket or a commit handler, and it
\* holds the mutex; a flush or a begin happens only while no other thread is
\* inside; a mutation is applied only by the holder, to an open handle that it
\* leaves in place; the content equals the brackets applied whole, one after
\* another in the order the mutex was acquired: the handle's content when the
\* mutex is free or a bracket is open, the durable content between a flush
\* and the begin that follows and after CommitAndStop
C10_Serialized ==
    [][/\ \A t \in Threads : pc'[t] # "idle" => mutex' = t
       /\ (flushes' # flushes \/ tx' # tx)
          => \E t \in Threads :
                /\ mutex \in {t, NoThread} /\ mutex' \in {t, NoThread}
                /\ \A u \in Threads \ {t} : pc[u] = "idle" /\ pc'[u] = "idle"
       /\ pending' = pending + 1
          => /\ mutex # NoThread /\ mutex' = mutex
             /\ pc[mutex] = "bracket" /\ pc' = pc
             /\ tx.open /\ tx' = tx /\ disk' = disk
       /\ ~fatal'
          => /\ (mutex' = NoThread /\ tx'.open) => work' = serial'
             /\ \A t \in Threads :
                  /\ pc'[t] = "bracket" => work' = local'[t]
                  /\ pc'[t] \in {"rlock", "begin"} /\ flushes' > entry'.flushes
                     => disk' = serial'
             /\ ret'.op = "CommitAndStop" => disk' = serial'
      ]_vars

\* C10 witness: a bracket is open on top of earlier, committed brackets and
\* has mutated: its view is ahead of the serial content and of the disk
C10_Witness ==
    \E t \in Threads :
        /\ ~fatal /\ pc[t] = "bracket" /\ mutex = t
        /\ \A u \in Threads \ {t} : pc[u] = "idle"
        /\ commits >= 1 /\ serial # EmptyMap /\ disk = serial
        /\ work = local[t] /\ local[t] # serial /\ pending >= 1

\* C11: a Put, SeqPut, Delete or Range that names a missing bucket ends in the
\* fatal state; a call inside a bracket (a step of the holder that calls no
\* flush) either ends in the fatal state with pending, the handle, the store
\* and the metrics untouched, or is a mutation that went through (pending + 1)
\* or a read that returned, and neither carries an error (only ForEach has an
\* error result); a step that calls the store's flush or begin either
\* succeeds or ends in the fatal state; in the fatal state nothing changes any
\* more
C11_ErrorsAreFatal ==
    [][/\ \A t \in Threads, b \in BucketNames :
            ~HasBucket(work, b)
            => /\ \A k \in Keys, v \in Values :
                    (UnsafePut(t, b, k, v) \/ UnsafeSeqPut(t, b, k, v))
                    => fatal' /\ pending' = pending /\ work' = work
               /\ \A k \in Keys :
                    UnsafeDelete(t, b, k)
                    => fatal' /\ pending' = pending /\ work' = work
               /\ \A a \in RangeArgs :
                    UnsafeRange(t, b, a[1], a[2], a[3])
                    => fatal' /\ ret'.op # "Range"
       /\ \A t \in Threads :
            (/\ pc[t] = "bracket" /\ pc'[t] = "bracket"
             /\ muWriter' = muWriter /\ commits' = commits)
            => \/ /\ fatal'
                  /\ UNCHANGED <<pending, storeVars, metricVars, mutex, histVars>>
               \/ /\ ~fatal' /\ pending' = pending + 1 /\ tx.open
                  /\ ret'.op = "none"
                  /\ DOMAIN work \subseteq DOMAIN work'
                  /\ \A b \in DOMAIN work' \ DOMAIN work : work'[b] = EmptyMap
               \/ /\ ~fatal' /\ pending' = pending /\ work' = work /\ tx.open
                  /\ ret'.op \in {"Range", "ForEach"}
                  /\ ret'.op = "Range"
                     => ret'.bucket \in DOMAIN work /\ "err" \notin DOMAIN ret'
       /\ commits' # commits
          => \/ ~fatal' /\ flushes' = flushes + 1 /\ disk' = work
             \/ fatal' /\ flushes' = flushes /\ disk' = disk
       /\ \A t \in Threads :
            (pc[t] = "begin" /\ mutex = t)
            => \/ ~fatal' /\ tx'.open /\ tx'.id = tx.id + 1
               \/ fatal' /\ ~tx'.open /\ UNCHANGED <<disk, metricVars, pending>>
       /\ fatal => UNCHANGED vars
      ]_vars

\* C11 witness: the process ended in a bracket on a handle without any
\* bucket, with no mutation counted
C11_Witness ==
    \E t \in Threads :
        /\ fatal /\ mutex = t /\ pc[t] = "bracket"
        /\ tx.open /\ work = EmptyMap /\ pending = 0 /\ commits = 0

\* C12: UnsafeCreateBucket of a bucket that exists on the open handle never
\* ends in the fatal state and leaves the store as it is: the bucket is still
\* there, once, with the keys and values it held, no other bucket changes, and
\* the call is counted as one pending mutation; so after any number of calls
\* the bucket "key" holds what it held at the start
C12_CreateExistingIsNoop ==
    [][/\ \A t \in Threads, b \in ScanBuckets :
            (HasBucket(work, b) /\ UnsafeCreateBucket(t, b))
            => /\ ~fatal' /\ pending' = pending + 1
               /\ work' = work /\ disk' = disk /\ tx' = tx
               /\ HasBucket(work', b) /\ work'[b] = work[b]
       /\ HasBucket(work', "key") /\ work'["key"] = disk'["key"]
          /\ local'[1]["key"] = work'["key"]
      ]_vars

\* C12 witness: three calls went through on a handle that holds one bucket
\* with two keys: at least two of them named a bucket that existed
C12_Witness ==
    /\ ~fatal /\ pending = 3 /\ tx.open
    /\ Cardinality(DOMAIN work["key"]) = 2 /\ work["key"] = disk["key"]
    /\ DOMAIN work = {"key", "meta"} /\ work["meta"] = EmptyMap

C14_OneOpenHandle ==
    [][/\ tx'.open
          => \/ tx' = tx
             \/ /\ ~tx.open /\ tx'.id = tx.id + 1
                /\ tx = NoTx \/ (disk = work /\ flushes > 0)
                /\ \E t \in Threads : mutex = t /\ pc[t] = "begin"
       /\ (mutex' = NoThread /\ Constructed' /\ ~stopped' /\ ~fatal') => tx'.open
      ]_vars

\* C14 witness: the mutex is free, CommitAndStop was not called, and the open
\* handle is the second replacement of the constructor's
C14_Witness ==
    /\ mutex = NoThread /\ ~stopped /\ ~fatal
    /\ tx.open /\ tx.id = 3 /\ flushes = 2

\* C15: pending counts the mutation calls that returned since the store's
\* flush was last called: it is 0 before the constructor ran; every call in a
\* bracket that returns and is no read (UnsafeCreateBucket, UnsafePut,
\* UnsafeSeqPut, UnsafeDelete) adds exactly 1, also the ones that leave the
\* content as it is: a create of a bucket that exists, a delete of a key that
\* is absent, a put of the value that is there; UnsafeRange and UnsafeForEach
\* leave it unchanged; every step that calls the flush sets it to 0 and no
\* other step lowers it; so it is 0 right after every successful flush
C15_PendingCountsMutations ==
    [][/\ ~Constructed => pending = 0
       /\ \A t \in Threads :
            (/\ pc[t] = "bracket" /\ pc'[t] = "bracket" /\ ~fatal'
             /\ ret'.op = "none" /\ muWriter' = muWriter)
            => /\ pending' = pending + 1 /\ tx.open
               /\ work' = work
                  => \E b \in BucketNames :
                        /\ HasBucket(work, b)
                        /\ \/ UnsafeCreateBucket(t, b)
                           \/ \E k \in Keys :
                                 /\ k \notin DOMAIN work[b]
                                 /\ UnsafeDelete(t, b, k)
                           \/ \E k \in Keys :
                                 /\ k \in DOMAIN work[b]
                                 /\ UnsafePut(t, b, k, work[b][k])
       /\ ret'.op \in {"Range", "ForEach"} => pending' = pending
       /\ pending' # pending
          => \/ /\ pending' = pending + 1 /\ tx.open
                /\ UNCHANGED <<flushes, commits, tx, disk, mutex, pc>>
                /\ mutex # NoThread /\ pc[mutex] = "bracket"
                /\ ret'.op = "none"
             \/ pending' = 0 /\ commits' = commits + 1
       /\ commits' # commits => pending' = 0
       /\ flushes' # flushes => pending' = 0 /\ disk' = work
      ]_vars

\* C15 witness: two mutation calls are counted in a bracket although the
\* content is an empty bucket that the first of them created: the second was a
\* create of the existing bucket or a delete of an absent key
C15_Witness ==
    \E t \in Threads :
        /\ ~fatal /\ mutex = t /\ pc[t] = "bracket"
        /\ pending = 2 /\ flushes = 0 /\ disk = EmptyMap
        /\ DOMAIN work = {"key"} /\ work["key"] = EmptyMap

\* C16: while a thread stays in its bracket no commit occurs, whatever pending
\* is against the threshold: the commit counter, the handle and the durable
\* content are unchanged by every call in the bracket, so pending grows past
\* the threshold; the Unlock that ends a bracket with pending above a
\* threshold K >= 1 flushes the whole content of the handle in one flush and
\* counts one commit
C16_ThresholdOnlyAtUnlock ==
    [][\A t \in Threads :
          /\ (pc[t] = "bracket" /\ pc'[t] = "bracket" /\ ~fatal')
             => /\ UNCHANGED <<commits, flushes, tx, disk, size, sizeInUse>>
                /\ mutex' = t
                /\ pending' >= pending
          /\ (/\ pc[t] = "bracket" /\ pc'[t] # "bracket"
              /\ batchLimit >= 1 /\ pending > batchLimit)
             => /\ flushes' = flushes + 1 /\ commits' = commits + 1
                /\ disk' = work /\ pending' = 0 /\ ~tx'.open
                /\ mutex' = t /\ pc'[t] = "rlock"
      ]_vars

\* C16 witness: one bracket has run three mutations against a threshold of 1
\* and its Unlock has flushed all of them in the first commit ever counted
C16_Witness ==
    \E t \in Threads :
        /\ ~fatal /\ mutex = t /\ pc[t] = "rlock"
        /\ entry.op = "Unlock" /\ batchLimit = 1 /\ entry.pending = 3
        /\ entry.commits = 0 /\ commits = 1 /\ flushes = 1 /\ pending = 0
        /\ disk = work /\ work # EmptyMap

\* C17: a transaction is begun, and size and size in use are published, only
\* in a step of the thread that holds the mutex and holds backend.mu shared,
\* so never while backend.mu is held exclusively; backend.mu is held shared
\* only by the holder of the mutex, inside a handler that has flushed or is
\* the constructor's Commit, and is released when the mutex is; a CommitAndStop
\* and a commit that returns early (a handle is there, nothing pending) never
\* ask for it
C17_BeginUnderSharedLock ==
    [][/\ ((tx'.open /\ tx' # tx) \/ size' # size \/ sizeInUse' # sizeInUse)
          => /\ ~muWriter /\ ~muWriter'
             /\ \E t \in Threads : mutex = t /\ t \in muReaders /\ pc[t] = "begin"
       /\ muWriter' => muReaders' = {}
       /\ \A t \in Threads :
            /\ t \in muReaders' => mutex' = t /\ pc'[t] = "begin"
            /\ pc'[t] \in {"rlock", "begin"}
               => /\ mutex' = t
                  /\ entry'.op \in {"Unlock", "Commit", "newBatchTx"}
                  /\ \/ flushes' = entry'.flushes + 1 /\ entry'.pending > 0
                     \/ entry'.op = "newBatchTx" /\ entry'.txid = 0
       /\ mutex' = NoThread => muReaders' = {}
       /\ (ret'.op = "CommitAndStop" /\ ret.op # "CommitAndStop")
          => muReaders = {} /\ muReaders' = {} /\ mutex = NoThread /\ mutex' = NoThread
       /\ (ret'.op = "Commit" /\ EntryPending = 0)
          => muReaders = {} /\ muReaders' = {} /\ mutex = NoThread /\ mutex' = NoThread
      ]_vars

\* C17 witness: a Commit that has flushed holds backend.mu shared and is about
\* to begin the replacement
C17_Witness ==
    \E t \in Threads :
        /\ ~fatal /\ mutex = t /\ pc[t] = "begin" /\ muReaders = {t} /\ ~muWriter
        /\ entry.op = "Commit" /\ flushes = entry.flushes + 1 /\ ~tx.open

\* C18: once CommitAndStop has returned the handle is closed and nothing is
\* pending, and every later Lock, Unlock and Commit returns (never fatal) and
\* leaves the handle, the store, the commit counter, size and size in use as
\* they are; no later step of any kind opens a handle or flushes
C18_StopIsTerminal ==
    [][/\ (stopped' /\ ~fatal') => (~tx'.open /\ tx' # NoTx /\ pending' = 0)
       /\ (stopped /\ ~fatal)
          => /\ \A t \in Threads :
                  (Lock(t) \/ Unlock(t) \/ Commit(t))
                  => /\ ~fatal'
                     /\ UNCHANGED <<tx, work, disk, flushes, pending, commits, size,
                                    sizeInUse, muVars>>
             /\ tx' = tx /\ flushes' = flushes /\ disk' = disk
             /\ UNCHANGED <<size, sizeInUse>>
             /\ \A t \in Threads : pc'[t] \in {"idle", "bracket"}
      ]_vars

\* C18 witness: a Commit has returned after CommitAndStop, under a threshold
\* of 0 (so that an Unlock, too, calls commit): the handle is still the closed
\* one and one commit, the stop's, is counted
C18_Witness ==
    /\ stopped /\ ~fatal /\ mutex = NoThread /\ ret.op = "Commit"
    /\ batchLimit = 0 /\ ~tx.open /\ tx.id = 1 /\ commits = 1 /\ flushes = 1

\* C19: whenever the mutex is free, pending is below the threshold K when
\* K >= 1 and is 0 when K <= 0
C19_PendingBelowThreshold ==
    mutex = NoThread
    => /\ batchLimit >= 1 => pending < batchLimit
       /\ batchLimit <= 0 => pending = 0

\* C19 witness: under a negative threshold an Unlock has returned after the
\* second flush; the mutex is free and nothing is pending
C19_Witness ==
    /\ mutex = NoThread /\ ~fatal /\ batchLimit < 0 /\ ret.op = "Unlock"
    /\ flushes = 2 /\ commits = 2 /\ pending = 0 /\ tx.open

\* C20: the durable content changes only in a step in which the store's flush
\* succeeds, and then it is the whole content of the handle that is flushed;
\* a mutation changes the handle's content only; the step that ends in the
\* fatal state leaves the durable content as it was (a flush that fails writes
\* none of the batch); every flush happens at the end of a bracket or in
\* Commit or CommitAndStop, so what it makes durable is the closed brackets
\* applied whole, never a part of a bracket
C20_DurableAllOrNothing ==
    [][/\ disk' # disk => (flushes' = flushes + 1 /\ disk' = work /\ ~fatal')
       /\ flushes' # flushes
          => /\ flushes' = flushes + 1 /\ commits' = commits + 1
             /\ disk' = work /\ work' = work /\ ~tx'.open /\ tx.open
       /\ fatal' => disk' = disk /\ flushes' = flushes
       /\ pending' = pending + 1 => disk' = disk
       /\ work' # work => (disk' = disk /\ (tx.open \/ work' = disk))
       /\ flushes' # flushes
          => \/ entry'.op = "Unlock" /\ disk' = serial'
             \/ ret'.op = "CommitAndStop" /\ disk' = serial'
             \/ entry'.op = "Commit" /\ disk' = serial'
      ]_vars

\* C20 witness: the process ended in a flush that failed: two mutations of the
\* handle are lost as a whole, the durable content is that of the flush before
C20_Witness ==
    /\ fatal /\ entry.op \in {"Unlock", "Commit", "CommitAndStop"}
    /\ entry.pending = 2 /\ commits = entry.commits + 1 /\ flushes = entry.flushes
    /\ flushes = 1 /\ disk # work /\ disk # EmptyMap

====
